---- MODULE Spec2Model ----
(***************************************************************************)
(* Model of gremlin/input_devices.py and gremlin/util.py: the callback     *)
(* registry, the vJoy and joystick proxies, the SingletonDecorator and the *)
(* Keyboard state tracker.                                                 *)
(***************************************************************************)
EXTENDS Integers, Sequences, FiniteSets, TLC

VARIABLES
    heap,        \* the dict objects CallbackRegistry has allocated, by reference
    _registry,   \* CallbackRegistry._registry: reference into heap
    regLog,      \* the add() and clear() calls made so far, with their outcome
    held,        \* the reference a caller got from the registry property (<<>>: none)
    connected,   \* SDL: the system id of the device at each open index (0-based)
    opened,      \* SDL: the open indices SDL_JoystickOpen has been called with
    created,     \* vJoy: the ids VJoy(...) has been constructed with
    vjoy_devices,      \* VJoyProxy.vjoy_devices
    joystick_devices,  \* JoystickProxy.joystick_devices
    proxyLog,    \* the proxy lookups made so far, with their outcome
    objects,     \* the objects the singleton-wrapped classes have constructed
    instance,    \* SingletonDecorator.instance of each decorated class (<<>>: None)
    singLog,     \* the calls of the decorated classes made so far, with their outcome
    kbLog,       \* the keyboard events delivered and is_pressed calls made so far
    wrapLog,     \* the JoystickWrapper(jid) constructions made so far, with their outcome
    installed,   \* what a plugin's install(callback, signature) returned (<<>>: not yet)
    invoked,     \* the calls of the original callback one invocation led to (<<>>: none yet)
    decLog,      \* the decorator applications made so far, with what they returned
    g_duplicate_devices,  \* util.g_duplicate_devices
    enumLog,     \* the device names each joystick_devices() call has seen
    folder,      \* what is at appdata_path(): "absent", "dir" or "file"
    writable,    \* whether os.mkdir(folder) succeeds when the path is absent
    appLog,      \* the setup_appdata() calls made so far, with their outcome
    hatIn,       \* the SDL hat value handed to convert_sdl_hat
    hatOut,      \* what convert_sdl_hat returned (<<>>: not called yet)
    dzIn,        \* the arguments handed to deadzone
    dzOut        \* what deadzone returned (<<>>: not called yet)

regVars == <<heap, _registry, regLog, held>>
proxyVars == <<connected, opened, created, vjoy_devices, joystick_devices, proxyLog>>
singVars == <<objects, instance, singLog, kbLog>>
pluginVars == <<installed, invoked, decLog>>
utilVars == <<wrapLog, g_duplicate_devices, enumLog, folder, writable, appLog,
              hatIn, hatOut, dzIn, dzOut>>

vars == <<heap, _registry, regLog, held,
          connected, opened, created, vjoy_devices, joystick_devices, proxyLog,
          objects, instance, singLog, kbLog,
          wrapLog, installed, invoked, decLog, g_duplicate_devices, enumLog,
          folder, writable, appLog, hatIn, hatOut, dzIn, dzOut>>

(***************************************************************************)
(* Bounds and input sets                                                   *)
(***************************************************************************)
MaxAdds == 2
MaxClears == 1
MaxLookups == 3
MaxDevices == 2
MaxCalls == 3
MaxKeyboardCalls == 3

\* callbacks: distinct function objects, two of which share their __name__
Callbacks ==
    { [id |-> 1, name |-> "f"], [id |-> 2, name |-> "f"], [id |-> 3, name |-> "g"] }

\* event descriptors: two elements of one device and one element of another
Events ==
    { [event_type |-> "JoystickAxis", hardware_id |-> 1, windows_id |-> 0, identifier |-> 1],
      [event_type |-> "JoystickAxis", hardware_id |-> 1, windows_id |-> 0, identifier |-> 2],
      [event_type |-> "JoystickAxis", hardware_id |-> 2, windows_id |-> 1, identifier |-> 1] }

Modes == {"global", "alt"}

(***************************************************************************)
(* Python dict helpers                                                     *)
(***************************************************************************)
EmptyDict == << >>

\* d[k] = v
SetItem(d, k, v) == [x \in (DOMAIN d) \cup {k} |-> IF x = k THEN v ELSE d[x]]

(***************************************************************************)
(* CallbackRegistry                                                        *)
(***************************************************************************)
\* util.device_id(event): the device id derived from the event
device_id(event) == event.hardware_id

\* a defect of add(): a later registration under a used name replaces the entry
CallbackRegistryAdd_LastWins(reg, callback, event, mode, always_execute) ==
    LET dev == device_id(event)
        function_name == callback.name
        r1 == IF dev \notin DOMAIN reg THEN SetItem(reg, dev, EmptyDict) ELSE reg
        r2 == IF mode \notin DOMAIN r1[dev]
              THEN SetItem(r1, dev, SetItem(r1[dev], mode, EmptyDict)) ELSE r1
        r3 == IF event \notin DOMAIN r2[dev][mode]
              THEN SetItem(r2, dev, SetItem(r2[dev], mode,
                       SetItem(r2[dev][mode], event, EmptyDict)))
              ELSE r2
        stored == function_name \notin DOMAIN r3[dev][mode][event]
    IN  [registry |-> SetItem(r3, dev, SetItem(r3[dev], mode,
                         SetItem(r3[dev][mode], event,
                            SetItem(r3[dev][mode][event], function_name,
                                    <<callback, always_execute>>)))),
         warning |-> ~stored]

\* a defect of add(): a duplicate keeps the callback but takes the new flag
CallbackRegistryAdd_UpdatesFlag(reg, callback, event, mode, always_execute) ==
    LET dev == device_id(event)
        function_name == callback.name
        r1 == IF dev \notin DOMAIN reg THEN SetItem(reg, dev, EmptyDict) ELSE reg
        r2 == IF mode \notin DOMAIN r1[dev]
              THEN SetItem(r1, dev, SetItem(r1[dev], mode, EmptyDict)) ELSE r1
        r3 == IF event \notin DOMAIN r2[dev][mode]
              THEN SetItem(r2, dev, SetItem(r2[dev], mode,
                       SetItem(r2[dev][mode], event, EmptyDict)))
              ELSE r2
        stored == function_name \notin DOMAIN r3[dev][mode][event]
        kept == IF stored THEN callback ELSE r3[dev][mode][event][function_name][1]
    IN  [registry |-> SetItem(r3, dev, SetItem(r3[dev], mode,
                         SetItem(r3[dev][mode], event,
                            SetItem(r3[dev][mode][event], function_name,
                                    <<kept, always_execute>>)))),
         warning |-> ~stored]

\* a defect of add(): the device bucket is keyed by the event's windows id
CallbackRegistryAdd_UnderWindowsId(reg, callback, event, mode, always_execute) ==
    LET dev == event.windows_id
        function_name == callback.name
        r1 == IF dev \notin DOMAIN reg THEN SetItem(reg, dev, EmptyDict) ELSE reg
        r2 == IF mode \notin DOMAIN r1[dev]
              THEN SetItem(r1, dev, SetItem(r1[dev], mode, EmptyDict)) ELSE r1
        r3 == IF event \notin DOMAIN r2[dev][mode]
              THEN SetItem(r2, dev, SetItem(r2[dev], mode,
                       SetItem(r2[dev][mode], event, EmptyDict)))
              ELSE r2
        stored == function_name \notin DOMAIN r3[dev][mode][event]
    IN  IF stored
        THEN [registry |-> SetItem(r3, dev, SetItem(r3[dev], mode,
                              SetItem(r3[dev][mode], event,
                                 SetItem(r3[dev][mode][event], function_name,
                                         <<callback, always_execute>>)))),
              warning |-> FALSE]
        ELSE [registry |-> r3, warning |-> TRUE]

\* CallbackRegistry.add on the dict value reg: the dict afterwards, and whether
\* the duplicate warning was logged
CallbackRegistryAdd(reg, callback, event, mode, always_execute) ==
    LET dev == device_id(event)
        function_name == callback.name
        r1 == IF dev \notin DOMAIN reg THEN SetItem(reg, dev, EmptyDict) ELSE reg
        r2 == IF mode \notin DOMAIN r1[dev]
              THEN SetItem(r1, dev, SetItem(r1[dev], mode, EmptyDict)) ELSE r1
        r3 == IF event \notin DOMAIN r2[dev][mode]
              THEN SetItem(r2, dev, SetItem(r2[dev], mode,
                       SetItem(r2[dev][mode], event, EmptyDict)))
              ELSE r2
        stored == function_name \notin DOMAIN r3[dev][mode][event]
    IN  IF stored
        THEN [registry |-> SetItem(r3, dev, SetItem(r3[dev], mode,
                              SetItem(r3[dev][mode], event,
                                 SetItem(r3[dev][mode][event], function_name,
                                         <<callback, always_execute>>)))),
              warning |-> FALSE]
        ELSE [registry |-> r3, warning |-> TRUE]

NumAdds == Cardinality({i \in DOMAIN regLog : regLog[i].op = "add"})
NumClears == Cardinality({i \in DOMAIN regLog : regLog[i].op = "clear"})

\* callback_registry.add(callback, event, mode, always_execute)
add(callback, event, mode, always_execute) ==
    /\ NumAdds < MaxAdds
    /\ LET res == CallbackRegistryAdd(heap[_registry], callback, event, mode,
                                      always_execute)
       IN  /\ heap' = [heap EXCEPT ![_registry] = res.registry]
           /\ regLog' = Append(regLog,
                  [op |-> "add", callback |-> callback, event |-> event,
                   mode |-> mode, always_execute |-> always_execute,
                   warning |-> res.warning, raised |-> "none"])
    /\ UNCHANGED <<_registry, held>>
    /\ UNCHANGED <<proxyVars, singVars, pluginVars, utilVars>>

\* a defect of clear(): the registry is left as it is
clear_Keeps ==
    /\ NumClears < MaxClears
    /\ regLog' = Append(regLog, [op |-> "clear", raised |-> "none"])
    /\ UNCHANGED <<heap, _registry, held>>
    /\ UNCHANGED <<proxyVars, singVars, pluginVars, utilVars>>

\* a defect of clear(): the dict _registry refers to is emptied in place
clear_InPlace ==
    /\ NumClears < MaxClears
    /\ heap' = [heap EXCEPT ![_registry] = EmptyDict]
    /\ regLog' = Append(regLog, [op |-> "clear", raised |-> "none"])
    /\ UNCHANGED <<_registry, held>>
    /\ UNCHANGED <<proxyVars, singVars, pluginVars, utilVars>>

\* callback_registry.clear(): a new empty dict is bound to _registry
clear ==
    /\ NumClears < MaxClears
    /\ heap' = Append(heap, EmptyDict)
    /\ _registry' = Len(heap) + 1
    /\ regLog' = Append(regLog, [op |-> "clear", raised |-> "none"])
    /\ UNCHANGED held
    /\ UNCHANGED <<proxyVars, singVars, pluginVars, utilVars>>

\* callback_registry.registry: the property returns the dict _registry refers to
registry == heap[_registry]

\* a caller reads callback_registry.registry and keeps what it returned
registry_property ==
    /\ held # <<_registry>>
    /\ held' = <<_registry>>
    /\ UNCHANGED <<heap, _registry, regLog>>
    /\ UNCHANGED <<proxyVars, singVars, pluginVars, utilVars>>


(***************************************************************************)
(* Lookup keys, the vJoy driver binding and SDL                            *)
(***************************************************************************)
\* the system ids SDL may report, and the lists of connected devices: every
\* device has its own system id, whatever its open index
SystemIds == 0..MaxDevices

DeviceLists ==
    UNION { {c \in [1..n -> SystemIds] : \A i, j \in 1..n : c[i] = c[j] => i = j} :
            n \in 0..MaxDevices }

\* keys a caller may subscript a proxy with: ints, a float that compares equal
\* to an int (1.0 == 1 and hashes alike), and a string
IntKeys == {[type |-> "int", val |-> v] : v \in 0..(MaxDevices + 1)}
Keys == IntKeys \cup {[type |-> "float", val |-> 1], [type |-> "str", val |-> 0]}

\* key in d, for a dict d whose keys are ints
Contains(d, key) == key.type \in {"int", "float"} /\ key.val \in DOMAIN d

\* sdl2.joystick.SDL_NumJoysticks()
SDL_NumJoysticks(conn) == Len(conn)

\* sdl2.joystick.SDL_JoystickInstanceID(joystick)
SDL_JoystickInstanceID(conn, joystick) == conn[joystick + 1]

\* a lookup's result: the cache, the driver calls made so far, what it raised
\* and what it returned (<<>>: nothing)
Result(cache, calls, raised, value) ==
    [cache |-> cache, calls |-> calls, raised |-> raised, value |-> value]

(***************************************************************************)
(* VJoyProxy                                                               *)
(***************************************************************************)
\* VJoy(key): a new handle object for the virtual device key
VJoy(key, made) == [vjoy_id |-> key.val, obj |-> Len(made) + 1]

\* lines 86-88: construct, cache, return
VJoyConstruct(cache, key, made) ==
    LET device == VJoy(key, made)
    IN  Result(SetItem(cache, key.val, device), Append(made, key.val),
               "none", <<device>>)

\* a defect: the handle is constructed on every lookup
VJoyProxy_getitem_NoCache(cache, key, made) ==
    IF key.type # "int"
    THEN Result(cache, made, "TypeError", << >>)
    ELSE VJoyConstruct(cache, key, made)

\* a defect: the key's type is never checked
VJoyProxy_getitem_NoTypeCheck(cache, key, made) ==
    IF Contains(cache, key)
    THEN Result(cache, made, "none", <<cache[key.val]>>)
    ELSE VJoyConstruct(cache, key, made)

\* VJoyProxy.__getitem__
VJoyProxy_getitem(cache, key, made) ==
    IF Contains(cache, key)
    THEN Result(cache, made, "none", <<cache[key.val]>>)
    ELSE IF key.type # "int"
         THEN Result(cache, made, "TypeError", << >>)
         ELSE VJoyConstruct(cache, key, made)

(***************************************************************************)
(* JoystickWrapper and JoystickProxy                                       *)
(***************************************************************************)
\* JoystickWrapper(jid): raises when jid > SDL_NumJoysticks(), else opens the
\* device and is a new wrapper object around its handle
JoystickWrapper(jid, conn, opens) ==
    IF jid > SDL_NumJoysticks(conn)
    THEN [raised |-> "GremlinError", joy |-> << >>, opens |-> opens]
    ELSE [raised |-> "none",
          joy |-> <<[obj |-> Len(opens) + 1, _joystick |-> jid]>>,
          opens |-> Append(opens, jid)]

\* JoystickWrapper.windows_id
windows_id(joy, conn) == SDL_JoystickInstanceID(conn, joy._joystick)

\* lines 171-173: the loop over range(SDL_NumJoysticks()), from index i on
RECURSIVE OpenAll(_, _, _, _)
OpenAll(i, cache, conn, opens) ==
    IF i >= SDL_NumJoysticks(conn)
    THEN [cache |-> cache, opens |-> opens]
    ELSE LET w == JoystickWrapper(i, conn, opens)
             joy == w.joy[1]
         IN  OpenAll(i + 1, SetItem(cache, windows_id(joy, conn), joy), conn, w.opens)

\* lines 171-174: open every device, cache it, return the entry of key
JoystickPopulate(cache, key, conn, opens) ==
    LET all == OpenAll(0, cache, conn, opens)
    IN  IF key.val \in DOMAIN all.cache
        THEN Result(all.cache, all.opens, "none", <<all.cache[key.val]>>)
        ELSE Result(all.cache, all.opens, "KeyError", << >>)

\* a defect: the device count is never checked
JoystickProxy_getitem_NoGuard(cache, key, conn, opens) ==
    IF Contains(cache, key)
    THEN Result(cache, opens, "none", <<cache[key.val]>>)
    ELSE IF key.type # "int"
         THEN Result(cache, opens, "TypeError", << >>)
         ELSE JoystickPopulate(cache, key, conn, opens)

\* a defect: a cached wrapper is handed out and dropped from the cache
JoystickProxy_getitem_Pops(cache, key, conn, opens) ==
    IF Contains(cache, key)
    THEN Result([k \in (DOMAIN cache) \ {key.val} |-> cache[k]], opens, "none",
                <<cache[key.val]>>)
    ELSE IF key.type # "int"
         THEN Result(cache, opens, "TypeError", << >>)
         ELSE IF key.val > SDL_NumJoysticks(conn)
              THEN Result(cache, opens, "GremlinError", << >>)
              ELSE JoystickPopulate(cache, key, conn, opens)

\* JoystickProxy.__getitem__
JoystickProxy_getitem(cache, key, conn, opens) ==
    IF Contains(cache, key)
    THEN Result(cache, opens, "none", <<cache[key.val]>>)
    ELSE IF key.type # "int"
         THEN Result(cache, opens, "TypeError", << >>)
         ELSE IF key.val > SDL_NumJoysticks(conn)
              THEN Result(cache, opens, "GremlinError", << >>)
              ELSE JoystickPopulate(cache, key, conn, opens)

\* vjoy[key], for any holder of a VJoyProxy
VJoyLookup(key) ==
    /\ Len(proxyLog) < MaxLookups
    /\ LET res == VJoyProxy_getitem(vjoy_devices, key, created)
       IN  /\ vjoy_devices' = res.cache
           /\ created' = res.calls
           /\ proxyLog' = Append(proxyLog,
                  [proxy |-> "vjoy", key |-> key, raised |-> res.raised,
                   value |-> res.value])
    /\ UNCHANGED <<connected, opened, joystick_devices>>
    /\ UNCHANGED <<regVars, singVars, pluginVars, utilVars>>

\* joy[key], for any holder of a JoystickProxy
JoystickLookup(key) ==
    /\ Len(proxyLog) < MaxLookups
    /\ LET res == JoystickProxy_getitem(joystick_devices, key, connected, opened)
       IN  /\ joystick_devices' = res.cache
           /\ opened' = res.calls
           /\ proxyLog' = Append(proxyLog,
                  [proxy |-> "joy", key |-> key, raised |-> res.raised,
                   value |-> res.value])
    /\ UNCHANGED <<connected, created, vjoy_devices>>
    /\ UNCHANGED <<regVars, singVars, pluginVars, utilVars>>

(***************************************************************************)
(* SingletonDecorator                                                      *)
(***************************************************************************)
\* the decorated classes: Keyboard, and any other class the decorator wraps
Klasses == {"Keyboard", "klass"}

\* argument lists a caller may pass
ArgLists == {<< >>, <<1>>, <<2>>}

\* klass(*args): Keyboard.__init__ takes no argument beside self; whether the
\* constructor of another class raises is that class's business (accepts)
Construct(klass, args, accepts) ==
    IF klass = "Keyboard"
    THEN IF args = << >>
         THEN [raised |-> "none",
               obj |-> <<[klass |-> klass, args |-> args, _keyboard_state |-> EmptyDict]>>]
         ELSE [raised |-> "TypeError", obj |-> << >>]
    ELSE IF accepts
         THEN [raised |-> "none",
               obj |-> <<[klass |-> klass, args |-> args, _keyboard_state |-> EmptyDict]>>]
         ELSE [raised |-> "Exception", obj |-> << >>]

\* a defect of __call__: the class is constructed on every call
SingletonDecorator_call_AlwaysConstructs(inst, objs, klass, args, accepts) ==
    LET made == Construct(klass, args, accepts)
    IN  IF made.raised # "none"
        THEN [instance |-> inst, objects |-> objs, raised |-> made.raised,
              value |-> << >>]
        ELSE [instance |-> <<Len(objs) + 1>>, objects |-> objs \o made.obj,
              raised |-> "none", value |-> <<Len(objs) + 1>>]

\* SingletonDecorator.__call__: the reference it returns, by position in objs
SingletonDecorator_call(inst, objs, klass, args, accepts) ==
    IF inst = << >>
    THEN LET made == Construct(klass, args, accepts)
         IN  IF made.raised # "none"
             THEN [instance |-> inst, objects |-> objs, raised |-> made.raised,
                   value |-> << >>]
             ELSE [instance |-> <<Len(objs) + 1>>, objects |-> objs \o made.obj,
                   raised |-> "none", value |-> <<Len(objs) + 1>>]
    ELSE [instance |-> inst, objects |-> objs, raised |-> "none", value |-> inst]

\* Keyboard(*args), or the call of any other decorated class
Call(klass, args, accepts) ==
    /\ Len(singLog) < MaxCalls + 1
    /\ LET res == SingletonDecorator_call(instance[klass], objects, klass, args,
                                          accepts)
       IN  /\ instance' = [instance EXCEPT ![klass] = res.instance]
           /\ objects' = res.objects
           /\ singLog' = Append(singLog,
                  [klass |-> klass, args |-> args, raised |-> res.raised,
                   value |-> res.value])
    /\ UNCHANGED kbLog
    /\ UNCHANGED <<regVars, proxyVars, pluginVars, utilVars>>

(***************************************************************************)
(* Keyboard                                                                *)
(***************************************************************************)
\* the (scan code, is extended) pairs keyboard events carry, and the key names
Identifiers == {<<30, FALSE>>, <<29, FALSE>>, <<29, TRUE>>}
KeyNames == {"a", "lctrl", "rctrl"}

\* macro.key_from_code(scan_code, is_extended): the key identity
key_from_code(scan_code, is_extended) ==
    CASE scan_code = 30 -> "Key_A"
      [] scan_code = 29 /\ ~is_extended -> "Key_LControl"
      [] scan_code = 29 /\ is_extended -> "Key_RControl"

\* macro.key_from_name(name): the key identity
key_from_name(name) ==
    CASE name = "a" -> "Key_A"
      [] name = "lctrl" -> "Key_LControl"
      [] name = "rctrl" -> "Key_RControl"

KeyIds == {key_from_name(n) : n \in KeyNames}

\* what is_pressed may be asked: a key name or a key identity
KeyArgs == {[type |-> "str", val |-> n] : n \in KeyNames}
               \cup {[type |-> "Key", val |-> k] : k \in KeyIds}

\* a defect of keyboard_event: the state of the other keys is dropped
Keyboard_keyboard_event_Resets(state, event) ==
    LET key == key_from_code(event.identifier[1], event.identifier[2])
    IN  SetItem(EmptyDict, key, event.is_pressed)

\* Keyboard.keyboard_event: _keyboard_state afterwards
Keyboard_keyboard_event(state, event) ==
    LET key == key_from_code(event.identifier[1], event.identifier[2])
    IN  SetItem(state, key, event.is_pressed)

\* Keyboard.is_pressed
Keyboard_is_pressed(state, arg) ==
    LET key == IF arg.type = "str" THEN key_from_name(arg.val) ELSE arg.val
    IN  IF key \in DOMAIN state THEN state[key] ELSE FALSE

\* the Keyboard object: what Keyboard() returns
TheKeyboard == instance["Keyboard"][1]

\* the event bus delivers a keyboard event to Keyboard().keyboard_event
keyboard_event(identifier, pressed) ==
    /\ Len(kbLog) < MaxKeyboardCalls
    /\ LET event == [identifier |-> identifier, is_pressed |-> pressed]
       IN  /\ objects' = [objects EXCEPT ![TheKeyboard]._keyboard_state =
                              Keyboard_keyboard_event(@, event)]
           /\ kbLog' = Append(kbLog, [op |-> "keyboard_event", event |-> event])
    /\ UNCHANGED <<instance, singLog>>
    /\ UNCHANGED <<regVars, proxyVars, pluginVars, utilVars>>

\* a callback asks Keyboard().is_pressed(arg)
is_pressed(arg) ==
    /\ Len(kbLog) < MaxKeyboardCalls
    /\ kbLog' = Append(kbLog,
           [op |-> "is_pressed", arg |-> arg,
            value |-> Keyboard_is_pressed(objects[TheKeyboard]._keyboard_state, arg)])
    /\ UNCHANGED <<objects, instance, singLog>>
    /\ UNCHANGED <<regVars, proxyVars, pluginVars, utilVars>>

(***************************************************************************)
(* VJoyPlugin, JoystickPlugin, KeyboardPlugin                              *)
(***************************************************************************)
\* the functions a user script defines: their __name__ and declared parameters
UserCallbacks ==
    { [kind |-> "def", id |-> 1, name |-> "f", params |-> {"event"}],
      [kind |-> "def", id |-> 2, name |-> "g", params |-> {"event", "vjoy"}],
      [kind |-> "def", id |-> 3, name |-> "h", params |-> {"event", "joy", "keyboard"}],
      [kind |-> "def", id |-> 4, name |-> "k", params |-> {"vjoy", "joy", "keyboard"}] }

Plugins == {"VJoyPlugin", "JoystickPlugin", "KeyboardPlugin"}

\* self.keyword
keyword(plugin) ==
    CASE plugin = "VJoyPlugin" -> "vjoy"
      [] plugin = "JoystickPlugin" -> "joy"
      [] plugin = "KeyboardPlugin" -> "keyboard"

\* the class attribute the wrapper injects: VJoyPlugin.vjoy,
\* JoystickPlugin.joystick, KeyboardPlugin.keyboard
singleton(plugin) ==
    CASE plugin = "VJoyPlugin" -> "VJoyPlugin.vjoy"
      [] plugin = "JoystickPlugin" -> "JoystickPlugin.joystick"
      [] plugin = "KeyboardPlugin" -> "KeyboardPlugin.keyboard"

\* positional and keyword arguments a caller may pass
PositionalArgs == {<< >>, <<"event">>}
KeywordArgs ==
    {EmptyDict, SetItem(EmptyDict, "extra", "x")}
        \cup {SetItem(SetItem(EmptyDict, "extra", "x"), keyword(p), "mine") : p \in Plugins}

\* install(callback, signature) of the three plugins; functools.wraps gives the
\* wrapper the name and the signature of the callback
Plugin_install(plugin, callback, signature) ==
    IF keyword(plugin) \notin signature
    THEN callback
    ELSE [kind |-> "wrapper", plugin |-> plugin, name |-> callback.name,
          params |-> callback.params, wrapped |-> callback]

\* a defect of wrapper: a value the caller passed under the keyword is kept
PluginWrapper_KeepsCallerValue(plugin, args, kwargs) ==
    <<[args |-> args,
       kwargs |-> IF keyword(plugin) \in DOMAIN kwargs
                  THEN kwargs
                  ELSE SetItem(kwargs, keyword(plugin), singleton(plugin))]>>

\* the body of install's wrapper(*args, **kwargs): the calls of the wrapped
\* callback it makes
PluginWrapper(plugin, args, kwargs) ==
    <<[args |-> args,
       kwargs |-> SetItem(kwargs, keyword(plugin), singleton(plugin))]>>

\* the body of the decorators' wrapper_fn(*args, **kwargs)
WrapperFn(args, kwargs) == <<[args |-> args, kwargs |-> kwargs]>>

\* f(*args, **kwargs): the calls of user functions it leads to, in order
RECURSIVE Invoke(_, _, _)
RECURSIVE InvokeEach(_, _)
Invoke(f, args, kwargs) ==
    CASE f.kind = "def" -> <<[callback |-> f, args |-> args, kwargs |-> kwargs]>>
      [] f.kind = "wrapper" -> InvokeEach(f.wrapped, PluginWrapper(f.plugin, args, kwargs))
      [] f.kind = "wrapper_fn" -> InvokeEach(f.wrapped, WrapperFn(args, kwargs))

InvokeEach(f, calls) ==
    IF calls = << >>
    THEN << >>
    ELSE Invoke(f, calls[1].args, calls[1].kwargs) \o InvokeEach(f, Tail(calls))

\* plugin.install(callback, inspect.signature(callback))
Install(plugin, callback) ==
    /\ installed = << >>
    /\ installed' = <<[plugin |-> plugin, callback |-> callback,
                       result |-> Plugin_install(plugin, callback, callback.params)]>>
    /\ UNCHANGED <<invoked, decLog>>
    /\ UNCHANGED <<regVars, proxyVars, singVars, utilVars>>

\* the function install returned is called
InvokeInstalled(args, kwargs) ==
    /\ installed # << >>
    /\ invoked = << >>
    /\ invoked' = <<[args |-> args, kwargs |-> kwargs,
                     calls |-> Invoke(installed[1].result, args, kwargs)]>>
    /\ UNCHANGED <<installed, decLog>>
    /\ UNCHANGED <<regVars, proxyVars, singVars, utilVars>>

(***************************************************************************)
(* The decorators axis, button, hat and keyboard                           *)
(***************************************************************************)
MaxDecorations == 2

\* util.extract_ids(device_id): the pair (hardware id, windows id)
extract_ids(dev) == <<dev.hid, dev.wid>>

\* event_handler.Event.from_key(key)
Event_from_key(key) ==
    [event_type |-> "Keyboard", hardware_id |-> 0, windows_id |-> 0,
     identifier |-> key]

\* the decorator applications a script makes on joystick inputs
JoystickDecorations ==
    { [decorator |-> "axis", id |-> 1, mode |-> "global", always_execute |-> FALSE,
       device_id |-> [hid |-> 1, wid |-> 0]],
      [decorator |-> "axis", id |-> 1, mode |-> "global", always_execute |-> TRUE,
       device_id |-> [hid |-> 1, wid |-> 0]],
      [decorator |-> "axis", id |-> 2, mode |-> "alt", always_execute |-> FALSE,
       device_id |-> [hid |-> 1, wid |-> 0]],
      [decorator |-> "button", id |-> 1, mode |-> "global", always_execute |-> FALSE,
       device_id |-> [hid |-> 1, wid |-> 0]],
      [decorator |-> "button", id |-> 2, mode |-> "alt", always_execute |-> TRUE,
       device_id |-> [hid |-> 2, wid |-> 1]],
      [decorator |-> "hat", id |-> 1, mode |-> "global", always_execute |-> FALSE,
       device_id |-> [hid |-> 1, wid |-> 0]],
      [decorator |-> "hat", id |-> 1, mode |-> "alt", always_execute |-> TRUE,
       device_id |-> [hid |-> 2, wid |-> 1]] }

\* and on keyboard keys
KeyboardDecorations ==
    { [key_name |-> "a", mode |-> "global", always_execute |-> FALSE],
      [key_name |-> "lctrl", mode |-> "alt", always_execute |-> TRUE] }

\* the callbacks a script decorates: the dispatcher passes them the event
DecoratedCallbacks == {c \in UserCallbacks : "event" \in c.params}

\* event_handler.InputType of each decorator
InputType(decorator) ==
    CASE decorator = "axis" -> "JoystickAxis"
      [] decorator = "button" -> "JoystickButton"
      [] decorator = "hat" -> "JoystickHat"

\* a defect of the decorators: every event is built as an axis event
DecoratorEvent_AlwaysAxis(decorator, element_id, dev) ==
    [event_type |-> "JoystickAxis", hardware_id |-> extract_ids(dev)[1],
     windows_id |-> extract_ids(dev)[2], identifier |-> element_id]

\* the event descriptor wrap() builds
DecoratorEvent(decorator, element_id, dev) ==
    [event_type |-> InputType(decorator), hardware_id |-> extract_ids(dev)[1],
     windows_id |-> extract_ids(dev)[2], identifier |-> element_id]

\* the decorators as they would be if wrap() ran the callback through the
\* three plugins
DecoratorWrap_InstallsPlugins(callback) ==
    [kind |-> "wrapper_fn", name |-> callback.name, params |-> callback.params,
     wrapped |-> Plugin_install("KeyboardPlugin",
                    Plugin_install("JoystickPlugin",
                        Plugin_install("VJoyPlugin", callback, callback.params),
                        callback.params),
                    callback.params)]

\* wrapper_fn, made by @functools.wraps(callback) in wrap()
DecoratorWrap(callback) ==
    [kind |-> "wrapper_fn", name |-> callback.name, params |-> callback.params,
     wrapped |-> callback]

\* wrap(callback): callback_registry.add(wrapper_fn, event, mode, always_execute)
\* and return wrapper_fn
Decorate(entry, event, mode, always_execute, callback) ==
    /\ Len(decLog) < MaxDecorations
    /\ LET wrapper_fn == DecoratorWrap(callback)
           res == CallbackRegistryAdd(heap[_registry], wrapper_fn, event, mode,
                                      always_execute)
       IN  /\ heap' = [heap EXCEPT ![_registry] = res.registry]
           /\ regLog' = Append(regLog,
                  [op |-> "add", callback |-> wrapper_fn, event |-> event,
                   mode |-> mode, always_execute |-> always_execute,
                   warning |-> res.warning, raised |-> "none"])
           /\ decLog' = Append(decLog,
                  [call |-> entry, callback |-> callback, event |-> event,
                   returned |-> wrapper_fn])
    /\ UNCHANGED <<_registry, held, installed, invoked>>
    /\ UNCHANGED <<proxyVars, singVars, utilVars>>

JoystickDecorate(decorator, element_id, dev, mode, always_execute, callback) ==
    Decorate([decorator |-> decorator, id |-> element_id, device_id |-> dev,
              mode |-> mode, always_execute |-> always_execute],
             DecoratorEvent(decorator, element_id, dev), mode, always_execute,
             callback)

\* @axis(axis_id, device_id, mode, always_execute) applied to callback
axis(axis_id, dev, mode, always_execute, callback) ==
    JoystickDecorate("axis", axis_id, dev, mode, always_execute, callback)

\* @button(button_id, device_id, mode, always_execute) applied to callback
button(button_id, dev, mode, always_execute, callback) ==
    JoystickDecorate("button", button_id, dev, mode, always_execute, callback)

\* @hat(hat_id, device_id, mode, always_execute) applied to callback
hat(hat_id, dev, mode, always_execute, callback) ==
    JoystickDecorate("hat", hat_id, dev, mode, always_execute, callback)

\* @keyboard(key_name, mode, always_execute) applied to callback
keyboard(key_name, mode, always_execute, callback) ==
    Decorate([decorator |-> "keyboard", key_name |-> key_name, mode |-> mode,
              always_execute |-> always_execute],
             Event_from_key(key_from_name(key_name)), mode, always_execute,
             callback)

\* the dispatcher calls a registered callback with the event
InvokeRegistered(dev, mode, event, name) ==
    /\ invoked = << >>
    /\ LET callback == heap[_registry][dev][mode][event][name][1]
       IN  invoked' = <<[callback |-> callback, args |-> <<"event">>,
                         kwargs |-> EmptyDict,
                         calls |-> Invoke(callback, <<"event">>, EmptyDict)]>>
    /\ UNCHANGED <<installed, decLog>>
    /\ UNCHANGED <<regVars, proxyVars, singVars, utilVars>>

(***************************************************************************)
(* util.joystick_devices and the duplicate-device flag                     *)
(***************************************************************************)
MaxEnumerations == 2

\* SDL_JoystickName of the devices
DeviceNames == {"vJoy Device", "Stick", "Throttle"}

\* JoystickDeviceData(device): the fields the enumeration uses
JoystickDeviceData(name) == [name |-> name, is_virtual |-> (name = "vJoy Device")]

\* a defect: the flag follows the last enumeration
DuplicateDevices_Resets(flag, devices) ==
    LET names == SelectSeq([i \in DOMAIN devices |-> devices[i].name],
                           LAMBDA n : n # "vJoy Device")
    IN  Len(names) # Cardinality({names[i] : i \in DOMAIN names})

\* lines 103-110: g_duplicate_devices after the check of the names
DuplicateDevices(flag, devices) ==
    LET physical == SelectSeq(devices, LAMBDA v : ~v.is_virtual)
        names == [i \in DOMAIN physical |-> physical[i].name]
    IN  IF Len(names) # Cardinality({names[i] : i \in DOMAIN names})
        THEN TRUE
        ELSE flag

\* joystick_devices(): every device is opened by index and described; reported
\* are the names SDL gives for the open indices during this call
util_joystick_devices(reported) ==
    /\ Len(enumLog) < MaxEnumerations
    /\ DOMAIN reported = 1..SDL_NumJoysticks(connected)
    /\ LET devices == [i \in DOMAIN reported |-> JoystickDeviceData(reported[i])]
       IN  /\ g_duplicate_devices' = DuplicateDevices(g_duplicate_devices, devices)
           /\ enumLog' = Append(enumLog, [names |-> reported, returned |-> devices])
    /\ opened' = opened \o [i \in DOMAIN reported |-> i - 1]
    /\ UNCHANGED <<connected, created, vjoy_devices, joystick_devices, proxyLog>>
    /\ UNCHANGED <<wrapLog, folder, writable, appLog, hatIn, hatOut, dzIn, dzOut>>
    /\ UNCHANGED <<regVars, singVars, pluginVars>>

(***************************************************************************)
(* util.setup_appdata                                                      *)
(***************************************************************************)
MaxSetups == 2

\* what the path of the data folder may be: nothing, a directory, a plain file
FolderStates == {"absent", "dir", "file"}

\* a defect: a plain file at the path is replaced by the directory
SetupAppdata_ReplacesFile(path, mkdir_succeeds) ==
    IF path = "absent" /\ ~mkdir_succeeds
    THEN [folder |-> path, raised |-> "GremlinError"]
    ELSE [folder |-> "dir", raised |-> "none"]

\* setup_appdata(): the path afterwards and what was raised
SetupAppdata(path, mkdir_succeeds) ==
    IF path = "absent"
    THEN IF mkdir_succeeds
         THEN [folder |-> "dir", raised |-> "none"]
         ELSE [folder |-> path, raised |-> "GremlinError"]
    ELSE IF path # "dir"
         THEN [folder |-> path, raised |-> "GremlinError"]
         ELSE [folder |-> path, raised |-> "none"]

setup_appdata ==
    /\ Len(appLog) < MaxSetups
    /\ LET res == SetupAppdata(folder, writable)
       IN  /\ folder' = res.folder
           /\ appLog' = Append(appLog, [before |-> folder, raised |-> res.raised,
                                         after |-> res.folder])
    /\ UNCHANGED <<writable, wrapLog, g_duplicate_devices, enumLog,
                   hatIn, hatOut, dzIn, dzOut>>
    /\ UNCHANGED <<regVars, proxyVars, singVars, pluginVars>>

\* another program changes the path or the rights on its parent
Filesystem(path, mkdir_succeeds) ==
    /\ <<path, mkdir_succeeds>> # <<folder, writable>>
    /\ folder' = path
    /\ writable' = mkdir_succeeds
    /\ UNCHANGED <<appLog, wrapLog, g_duplicate_devices, enumLog,
                   hatIn, hatOut, dzIn, dzOut>>
    /\ UNCHANGED <<regVars, proxyVars, singVars, pluginVars>>

(***************************************************************************)
(* util.convert_sdl_hat                                                    *)
(***************************************************************************)
\* SDL reports a hat as a Uint8
MaxHatValue == 255

\* the direction bits of SDL
SDL_HAT_UP == 1
SDL_HAT_RIGHT == 2
SDL_HAT_DOWN == 4
SDL_HAT_LEFT == 8

\* value & bit, for a mask of one bit
BitAnd(value, bit) == ((value \div bit) % 2) * bit

\* a defect: down is tested before up
ConvertSdlHat_DownFirst(value) ==
    LET y == IF BitAnd(value, SDL_HAT_DOWN) # 0 THEN -1
             ELSE IF BitAnd(value, SDL_HAT_UP) # 0 THEN 1 ELSE 0
        x == IF BitAnd(value, SDL_HAT_RIGHT) # 0 THEN 1
             ELSE IF BitAnd(value, SDL_HAT_LEFT) # 0 THEN -1 ELSE 0
    IN  <<x, y>>

\* convert_sdl_hat(value): tuple(direction)
ConvertSdlHat(value) ==
    LET y == IF BitAnd(value, SDL_HAT_UP) # 0 THEN 1
             ELSE IF BitAnd(value, SDL_HAT_DOWN) # 0 THEN -1 ELSE 0
        x == IF BitAnd(value, SDL_HAT_RIGHT) # 0 THEN 1
             ELSE IF BitAnd(value, SDL_HAT_LEFT) # 0 THEN -1 ELSE 0
    IN  <<x, y>>

convert_sdl_hat(value) ==
    /\ hatIn' = value
    /\ hatOut' = <<ConvertSdlHat(value)>>
    /\ UNCHANGED <<wrapLog, g_duplicate_devices, enumLog, folder, writable, appLog,
                   dzIn, dzOut>>
    /\ UNCHANGED <<regVars, proxyVars, singVars, pluginVars>>

(***************************************************************************)
(* deadzone                                                                *)
(***************************************************************************)
\* axis values and limits are the multiples of 1/Scale in [-1, 1], written as
\* their numerators
Scale == 4
MaxDeadzoneCalls == 2

AxisValues == (-Scale)..Scale

\* the limits a script may pass: -1 <= low < low_center <= 0 <= high_center < high <= 1
Limits ==
    { l \in [low : AxisValues, low_center : AxisValues,
             high_center : AxisValues, high : AxisValues] :
        /\ l.low < l.low_center /\ l.low_center <= 0
        /\ 0 <= l.high_center /\ l.high_center < l.high }

\* numbers: a quotient of two integers with a positive denominator
Frac(n, d) == <<n, d>>
Leq(a, b) == a[1] * b[2] <= b[1] * a[2]
Eq(a, b) == a[1] * b[2] = b[1] * a[2]
Abs(x) == IF x < 0 THEN -x ELSE x

\* min(a, b) and max(a, b) of Python: the first argument wins a tie
Min(a, b) == IF Leq(a, b) THEN a ELSE b
Max(a, b) == IF Leq(b, a) THEN a ELSE b

\* a defect: the quotient is returned unclamped
Deadzone_NoClamp(value, low, low_center, high_center, high) ==
    IF value >= 0
    THEN Frac(value - high_center, Abs(high - high_center))
    ELSE Frac(value - low_center, Abs(low - low_center))

\* deadzone(value, low, low_center, high_center, high)
Deadzone(value, low, low_center, high_center, high) ==
    IF value >= 0
    THEN Min(Frac(1, 1), Max(Frac(0, 1),
             Frac(value - high_center, Abs(high - high_center))))
    ELSE Max(Frac(-1, 1), Min(Frac(0, 1),
             Frac(value - low_center, Abs(low - low_center))))

\* a call of deadzone; the calls explored in one behaviour share their limits
deadzone(value, limits) ==
    /\ Len(dzOut) < MaxDeadzoneCalls
    /\ dzIn \in {<< >>, <<limits>>}
    /\ dzIn' = <<limits>>
    /\ dzOut' = Append(dzOut,
           [value |-> value,
            result |-> Deadzone(value, limits.low, limits.low_center,
                                limits.high_center, limits.high)])
    /\ UNCHANGED <<wrapLog, g_duplicate_devices, enumLog, folder, writable, appLog,
                   hatIn, hatOut>>
    /\ UNCHANGED <<regVars, proxyVars, singVars, pluginVars>>

(***************************************************************************)
(* JoystickWrapper constructed by a script                                 *)
(***************************************************************************)
MaxWraps == 2

\* the open indices a script may pass
WrapperIndices == (-1)..(MaxDevices + 1)

\* JoystickWrapper(jid)
NewJoystickWrapper(jid) ==
    /\ Len(wrapLog) < MaxWraps
    /\ LET res == JoystickWrapper(jid, connected, opened)
       IN  /\ opened' = res.opens
           /\ wrapLog' = Append(wrapLog,
                  [jid |-> jid, raised |-> res.raised, joy |-> res.joy])
    /\ UNCHANGED <<connected, created, vjoy_devices, joystick_devices, proxyLog>>
    /\ UNCHANGED <<g_duplicate_devices, enumLog, folder, writable, appLog,
                   hatIn, hatOut, dzIn, dzOut>>
    /\ UNCHANGED <<regVars, singVars, pluginVars>>

(***************************************************************************)
(* Specifications                                                          *)
(***************************************************************************)
\* the state of input_devices once the modules are imported
InitModules ==
    /\ heap = <<EmptyDict>>
    /\ _registry = 1
    /\ regLog = << >>
    /\ held = << >>
    /\ connected \in DeviceLists
    /\ opened = << >>
    /\ created = << >>
    /\ vjoy_devices = EmptyDict
    /\ joystick_devices = EmptyDict
    /\ proxyLog = << >>
    \* KeyboardPlugin.keyboard = Keyboard() has run
    /\ objects = <<[klass |-> "Keyboard", args |-> << >>, _keyboard_state |-> EmptyDict]>>
    /\ instance = [k \in Klasses |-> IF k = "Keyboard" THEN <<1>> ELSE << >>]
    /\ singLog = <<[klass |-> "Keyboard", args |-> << >>, raised |-> "none", value |-> <<1>>]>>
    /\ kbLog = << >>
    /\ wrapLog = << >>

InitPlugins ==
    /\ installed = << >>
    /\ invoked = << >>
    /\ decLog = << >>

InitEnumeration ==
    /\ g_duplicate_devices = FALSE
    /\ enumLog = << >>

InitAppdata ==
    /\ folder = "absent"
    /\ writable = TRUE
    /\ appLog = << >>

InitHat ==
    /\ hatIn = 0
    /\ hatOut = << >>

InitDeadzone ==
    /\ dzIn = << >>
    /\ dzOut = << >>

\* the state once the modules are imported
Init ==
    /\ InitModules
    /\ InitPlugins
    /\ InitEnumeration
    /\ InitAppdata
    /\ InitHat
    /\ InitDeadzone

InitRegistry == Init /\ connected = << >>

NextRegistry ==
    \/ \E callback \in Callbacks, event \in Events, mode \in Modes,
          always_execute \in BOOLEAN :
            add(callback, event, mode, always_execute)
    \/ clear

SpecRegistry == InitRegistry /\ [][NextRegistry]_vars

NextProxy ==
    \/ \E key \in Keys : VJoyLookup(key)
    \/ \E key \in Keys : JoystickLookup(key)

SpecProxy == Init /\ [][NextProxy]_vars

InitSingleton == Init /\ connected = << >>

NextSingleton ==
    \E klass \in Klasses, args \in ArgLists, accepts \in BOOLEAN :
        Call(klass, args, accepts)

SpecSingleton == InitSingleton /\ [][NextSingleton]_vars

NextKeyboard ==
    \/ \E identifier \in Identifiers, pressed \in BOOLEAN :
          keyboard_event(identifier, pressed)
    \/ \E arg \in KeyArgs : is_pressed(arg)

SpecKeyboard == InitSingleton /\ [][NextKeyboard]_vars

NextPlugin ==
    \/ \E plugin \in Plugins, callback \in UserCallbacks : Install(plugin, callback)
    \/ \E args \in PositionalArgs, kwargs \in KeywordArgs : InvokeInstalled(args, kwargs)

SpecPlugin == InitSingleton /\ [][NextPlugin]_vars

NextDecorator ==
    \/ \E d \in JoystickDecorations, callback \in DecoratedCallbacks :
          /\ d.decorator = "axis"
          /\ axis(d.id, d.device_id, d.mode, d.always_execute, callback)
    \/ \E d \in JoystickDecorations, callback \in DecoratedCallbacks :
          /\ d.decorator = "button"
          /\ button(d.id, d.device_id, d.mode, d.always_execute, callback)
    \/ \E d \in JoystickDecorations, callback \in DecoratedCallbacks :
          /\ d.decorator = "hat"
          /\ hat(d.id, d.device_id, d.mode, d.always_execute, callback)
    \/ \E d \in KeyboardDecorations, callback \in DecoratedCallbacks :
          keyboard(d.key_name, d.mode, d.always_execute, callback)
    \/ \E dev \in DOMAIN registry : \E mode \in DOMAIN registry[dev] :
          \E event \in DOMAIN registry[dev][mode] :
             \E name \in DOMAIN registry[dev][mode][event] :
                InvokeRegistered(dev, mode, event, name)

SpecDecorator == InitRegistry /\ [][NextDecorator]_vars

NameLists == UNION {[1..n -> DeviceNames] : n \in 0..MaxDevices}

NextEnumerate == \E reported \in NameLists : util_joystick_devices(reported)

SpecEnumerate == Init /\ [][NextEnumerate]_vars

NextAppdata ==
    \/ setup_appdata
    \/ \E path \in FolderStates, mkdir_succeeds \in BOOLEAN :
          Filesystem(path, mkdir_succeeds)

SpecAppdata == InitRegistry /\ [][NextAppdata]_vars

NextHat == \E value \in 0..MaxHatValue : convert_sdl_hat(value)

SpecHat == InitRegistry /\ [][NextHat]_vars

NextDeadzone == \E value \in AxisValues, limits \in Limits : deadzone(value, limits)

SpecDeadzone == InitRegistry /\ [][NextDeadzone]_vars

NextWrapper == \E jid \in WrapperIndices : NewJoystickWrapper(jid)

SpecWrapper == Init /\ [][NextWrapper]_vars

\* add() with the defaults mode="global", always_execute=False, clear() and
\* readers of the registry property
NextDispatch ==
    \/ \E callback \in Callbacks, event \in Events : add(callback, event, "global", FALSE)
    \/ clear
    \/ registry_property

SpecDispatch == InitRegistry /\ [][NextDispatch]_vars

(***************************************************************************)
(* Claims about the callback registry                                      *)
(***************************************************************************)
\* the registrations a registry dict holds, flattened
Entries(reg) ==
    UNION { UNION { UNION { { [device |-> d, mode |-> m, event |-> e, name |-> n,
                               callback |-> reg[d][m][e][n][1],
                               always_execute |-> reg[d][m][e][n][2]] :
                              n \in DOMAIN reg[d][m][e] } :
                            e \in DOMAIN reg[d][m] } :
                    m \in DOMAIN reg[d] } :
            d \in DOMAIN reg }

\* the registration an add() call asks for
EntryOf(call) ==
    [device |-> device_id(call.event), mode |-> call.mode, event |-> call.event,
     name |-> call.callback.name, callback |-> call.callback,
     always_execute |-> call.always_execute]

SameSlot(a, b) ==
    /\ a.device = b.device /\ a.mode = b.mode
    /\ a.event = b.event /\ a.name = b.name

LastClear ==
    LET cs == {i \in DOMAIN regLog : regLog[i].op = "clear"}
    IN  IF cs = {} THEN 0 ELSE CHOOSE i \in cs : \A j \in cs : j <= i

\* positions in the log of the add() calls made since the last clear()
AddsSinceClear == {i \in DOMAIN regLog : i > LastClear /\ regLog[i].op = "add"}

FirstOfItsSlot(i) ==
    \A j \in AddsSinceClear :
        j < i => ~SameSlot(EntryOf(regLog[j]), EntryOf(regLog[i]))

LastCall == regLog[Len(regLog)]

\* C1: the registry holds exactly one entry for every (device id, mode, event,
\* callback name) added since the last clear(), and that entry is the callback
\* and always_execute flag of the first add() made for it.
C1_FirstRegistrationWins ==
    Entries(registry) =
        {EntryOf(regLog[i]) : i \in {k \in AddsSinceClear : FirstOfItsSlot(k)}}

\* C1 witness: two different callbacks of one name were added to one bucket and
\* the first is the one the registry holds.
C1_Witness ==
    \E i, j \in AddsSinceClear :
        /\ i < j
        /\ SameSlot(EntryOf(regLog[i]), EntryOf(regLog[j]))
        /\ regLog[i].callback # regLog[j].callback
        /\ EntryOf(regLog[i]) \in Entries(registry)

HasName(reg, call) ==
    /\ device_id(call.event) \in DOMAIN reg
    /\ call.mode \in DOMAIN reg[device_id(call.event)]
    /\ call.event \in DOMAIN reg[device_id(call.event)][call.mode]
    /\ call.callback.name \in DOMAIN reg[device_id(call.event)][call.mode][call.event]

\* C2: an add() whose callback name already exists in the target bucket raises
\* nothing and leaves the whole registry as it was, in every bucket, the stored
\* always_execute flag included.
C2_DuplicateAddChangesNothing ==
    [][ ( /\ Len(regLog') = Len(regLog) + 1
          /\ regLog'[Len(regLog')].op = "add"
          /\ HasName(registry, regLog'[Len(regLog')]) )
        => ( /\ heap' = heap
             /\ _registry' = _registry
             /\ regLog'[Len(regLog')].raised = "none" ) ]_vars

\* C2 witness: a duplicate add() with another callback and another flag than the
\* stored ones was made and rejected.
C2_Witness ==
    /\ Len(regLog) >= 2
    /\ LastCall.op = "add"
    /\ LastCall.warning
    /\ \E e \in Entries(registry) :
        /\ SameSlot(e, EntryOf(LastCall))
        /\ e.callback # LastCall.callback
        /\ e.always_execute # LastCall.always_execute

\* C3: right after clear() the mapping the registry accessor returns is empty,
\* and an add() that follows a clear() is stored, not treated as a duplicate,
\* also when its name was registered before the clear().
C3_ClearEmptiesRegistry ==
    LET n == Len(regLog)
    IN  /\ (n >= 1 /\ regLog[n].op = "clear") => registry = EmptyDict
        /\ (n >= 2 /\ regLog[n-1].op = "clear" /\ regLog[n].op = "add")
              => /\ ~regLog[n].warning
                 /\ Entries(registry) = {EntryOf(regLog[n])}

\* C3 witness: a name registered before the clear() was added again after it,
\* to the same bucket, and is stored.
C3_Witness ==
    LET n == Len(regLog)
    IN  /\ n >= 3
        /\ regLog[n-1].op = "clear"
        /\ regLog[n].op = "add"
        /\ \E i \in 1..(n-2) :
            /\ regLog[i].op = "add"
            /\ SameSlot(EntryOf(regLog[i]), EntryOf(regLog[n]))
        /\ EntryOf(regLog[n]) \in Entries(registry)

(***************************************************************************)
(* Claims about the proxies                                                *)
(***************************************************************************)
LastLookup == proxyLog[Len(proxyLog)]

\* the step is a proxy lookup; its log entry is proxyLog'[Len(proxyLog')]
LookupStep == Len(proxyLog') = Len(proxyLog) + 1

IntLookups(proxy) ==
    {i \in DOMAIN proxyLog : proxyLog[i].proxy = proxy /\ proxyLog[i].key.type = "int"}

\* C4: VJoy(...) is constructed exactly once for every integer id looked up, and
\* for no other id, and every lookup of an id returns the handle its first
\* lookup constructed, whatever other ids are looked up in between.
C4_VJoyConstructedOncePerId ==
    /\ \A i \in IntLookups("vjoy") :
          Cardinality({n \in DOMAIN created : created[n] = proxyLog[i].key.val}) = 1
    /\ \A n \in DOMAIN created :
          \E i \in IntLookups("vjoy") : proxyLog[i].key.val = created[n]
    /\ \A i \in IntLookups("vjoy") :
          /\ proxyLog[i].raised = "none"
          /\ Len(proxyLog[i].value) = 1
          /\ proxyLog[i].value[1].vjoy_id = proxyLog[i].key.val
          /\ created[proxyLog[i].value[1].obj] = proxyLog[i].key.val
    /\ \A i, j \in IntLookups("vjoy") :
          proxyLog[i].key = proxyLog[j].key => proxyLog[i].value = proxyLog[j].value

\* C4 witness: an id was looked up, then another id, then the first again.
C4_Witness ==
    /\ Len(proxyLog) = 3
    /\ \A i \in 1..3 : proxyLog[i].proxy = "vjoy" /\ proxyLog[i].key.type = "int"
    /\ proxyLog[1].key = proxyLog[3].key
    /\ proxyLog[1].key # proxyLog[2].key
    /\ proxyLog[1].value = proxyLog[3].value
    /\ Len(created) = 2

\* C5 (as claimed): once a JoystickProxy lookup has opened the connected devices,
\* no later lookup opens a device again, and every cached wrapper stays the
\* wrapper cached under its key.
C5_ServedFromCacheAfterFirstMiss ==
    [][ opened # << >>
        => /\ opened' = opened
           /\ \A k \in DOMAIN joystick_devices :
                 /\ k \in DOMAIN joystick_devices'
                 /\ joystick_devices'[k] = joystick_devices[k] ]_vars

\* C6 (as claimed): a lookup with a non-integer key fails with the domain error
\* raised for a bad device id, constructs or opens nothing and leaves the caches
\* unchanged.
C6_NonIntegerKeyDomainError ==
    [][ (LookupStep /\ proxyLog'[Len(proxyLog')].key.type # "int")
        => /\ proxyLog'[Len(proxyLog')].raised = "GremlinError"
           /\ opened' = opened /\ created' = created
           /\ vjoy_devices' = vjoy_devices
           /\ joystick_devices' = joystick_devices ]_vars

CacheOf(proxy) == IF proxy = "vjoy" THEN vjoy_devices ELSE joystick_devices

\* C6 (amended): a lookup with a non-integer key that equals no cached key fails
\* with TypeError, which is not the GremlinError raised for a bad device id,
\* constructs or opens nothing and leaves the caches unchanged.
C6_NonIntegerKeyTypeError ==
    [][ ( /\ LookupStep
          /\ proxyLog'[Len(proxyLog')].key.type # "int"
          /\ ~Contains(CacheOf(proxyLog'[Len(proxyLog')].proxy),
                       proxyLog'[Len(proxyLog')].key) )
        => /\ proxyLog'[Len(proxyLog')].raised = "TypeError"
           /\ proxyLog'[Len(proxyLog')].value = << >>
           /\ opened' = opened /\ created' = created
           /\ vjoy_devices' = vjoy_devices
           /\ joystick_devices' = joystick_devices ]_vars

\* C6 witness: with a handle cached, both proxies were subscripted with a
\* non-integer key and raised TypeError.
C6_Witness ==
    /\ \E i \in DOMAIN proxyLog :
          /\ proxyLog[i].proxy = "vjoy" /\ proxyLog[i].key.type # "int"
          /\ proxyLog[i].raised = "TypeError"
    /\ \E i \in DOMAIN proxyLog :
          /\ proxyLog[i].proxy = "joy" /\ proxyLog[i].key.type # "int"
          /\ proxyLog[i].raised = "TypeError"
    /\ (DOMAIN vjoy_devices) \cup (DOMAIN joystick_devices) # {}

\* C7: a JoystickProxy lookup with an uncached integer key greater than the
\* number of connected devices raises GremlinError, opens no device and leaves
\* the cache unchanged.
C7_KeyBeyondDeviceCount ==
    [][ ( /\ LookupStep
          /\ proxyLog'[Len(proxyLog')].proxy = "joy"
          /\ proxyLog'[Len(proxyLog')].key.type = "int"
          /\ proxyLog'[Len(proxyLog')].key.val \notin DOMAIN joystick_devices
          /\ proxyLog'[Len(proxyLog')].key.val > SDL_NumJoysticks(connected) )
        => /\ proxyLog'[Len(proxyLog')].raised = "GremlinError"
           /\ opened' = opened
           /\ joystick_devices' = joystick_devices ]_vars

\* C7 witness: with devices cached, an integer key beyond the device count was
\* looked up and GremlinError was raised.
C7_Witness ==
    /\ Len(proxyLog) >= 2
    /\ LastLookup.proxy = "joy"
    /\ LastLookup.key.type = "int"
    /\ LastLookup.key.val > SDL_NumJoysticks(connected)
    /\ LastLookup.key.val \notin DOMAIN joystick_devices
    /\ LastLookup.raised = "GremlinError"
    /\ joystick_devices # EmptyDict

\* C8: the key sets of both caches only grow.
C8_CacheKeysOnlyGrow ==
    [][ /\ (DOMAIN vjoy_devices) \subseteq (DOMAIN vjoy_devices')
        /\ (DOMAIN joystick_devices) \subseteq (DOMAIN joystick_devices') ]_vars

\* C8 witness: both caches hold a key and the last lookup was a failing one.
C8_Witness ==
    /\ Len(proxyLog) = 3
    /\ LastLookup.raised # "none"
    /\ vjoy_devices # EmptyDict
    /\ joystick_devices # EmptyDict

(***************************************************************************)
(* Claims about SingletonDecorator and Keyboard                            *)
(***************************************************************************)
CallsOf(klass) == {i \in DOMAIN singLog : singLog[i].klass = klass}
Returned(klass) == {i \in CallsOf(klass) : singLog[i].raised = "none"}

\* C9: for every decorated class the constructor runs successfully at most
\* once, every call that returns returns that one instance, and a call made
\* after the first successful one returns it whatever its arguments are: the
\* instance keeps the arguments it was constructed with.
C9_SingletonConstructedOnce ==
    \A klass \in Klasses :
        /\ Cardinality({o \in DOMAIN objects : objects[o].klass = klass}) <= 1
        /\ \A i \in Returned(klass) :
              /\ singLog[i].value = instance[klass]
              /\ Len(singLog[i].value) = 1
              /\ objects[singLog[i].value[1]].klass = klass
        /\ \A i, j \in Returned(klass) : singLog[i].value = singLog[j].value
        /\ \A i \in CallsOf(klass) : \A j \in Returned(klass) :
              ( /\ j < i
                /\ \A l \in Returned(klass) : j <= l )
              => /\ singLog[i].raised = "none"
                 /\ objects[singLog[i].value[1]].args = singLog[j].args

\* C9 witness: a class whose constructor raised once was constructed by a
\* second call and called a third time with other arguments, and the keyboard
\* tracker was not constructed again.
C9_Witness ==
    /\ \E i, j, l \in CallsOf("klass") :
          /\ i < j /\ j < l
          /\ singLog[i].raised # "none"
          /\ singLog[j].raised = "none"
          /\ singLog[l].args # singLog[j].args
          /\ singLog[l].value = singLog[j].value
    /\ Cardinality({o \in DOMAIN objects : objects[o].klass = "Keyboard"}) = 1

KeyOf(arg) == IF arg.type = "str" THEN key_from_name(arg.val) ELSE arg.val

\* the events among the first n log entries whose identifier resolves to key
EventsFor(key, n) ==
    {i \in 1..n : /\ kbLog[i].op = "keyboard_event"
                  /\ key_from_code(kbLog[i].event.identifier[1],
                                   kbLog[i].event.identifier[2]) = key}

\* the pressed flag of the most recent of them, FALSE when there is none
LastFlag(key, n) ==
    IF EventsFor(key, n) = {}
    THEN FALSE
    ELSE LET last == CHOOSE i \in EventsFor(key, n) : \A j \in EventsFor(key, n) : j <= i
         IN  kbLog[last].event.is_pressed

KeyboardState == objects[TheKeyboard]._keyboard_state

C10_State ==
    /\ \A arg \in KeyArgs :
          Keyboard_is_pressed(KeyboardState, arg) = LastFlag(KeyOf(arg), Len(kbLog))
    /\ \A i \in DOMAIN kbLog :
          kbLog[i].op = "is_pressed"
              => kbLog[i].value = LastFlag(KeyOf(kbLog[i].arg), i - 1)

C10_Step ==
    Len(kbLog') = Len(kbLog) + 1 =>
        LET call == kbLog'[Len(kbLog')]
        IN  /\ call.op = "is_pressed" => objects' = objects
            /\ call.op = "keyboard_event" =>
                  \A k \in KeyIds \ {key_from_code(call.event.identifier[1],
                                                  call.event.identifier[2])} :
                      /\ k \in DOMAIN KeyboardState <=> k \in DOMAIN KeyboardState'
                      /\ k \in DOMAIN KeyboardState => KeyboardState'[k] = KeyboardState[k]

\* C10: is_pressed(k) returns the pressed flag of the most recent event whose
\* identifier resolves to k, and false when there was none; an event for one key
\* leaves the stored state of every other key as it was, and is_pressed changes
\* nothing.
C10_KeyboardTracksLastEvent == []C10_State /\ [][C10_Step]_vars

\* C10 witness: a key was pressed and released again while another key stayed
\* pressed.
C10_Witness ==
    /\ Len(kbLog) = 3
    /\ \A i \in 1..3 : kbLog[i].op = "keyboard_event"
    /\ kbLog[1].event.identifier = kbLog[3].event.identifier
    /\ kbLog[1].event.identifier # kbLog[2].event.identifier
    /\ kbLog[1].event.is_pressed /\ kbLog[2].event.is_pressed
    /\ ~kbLog[3].event.is_pressed
    /\ Keyboard_is_pressed(KeyboardState, [type |-> "Key", val |-> "Key_LControl"])
    /\ ~Keyboard_is_pressed(KeyboardState, [type |-> "str", val |-> "a"])

(***************************************************************************)
(* Claims about the plugins and the decorators                             *)
(***************************************************************************)
\* C11: install returns the callback itself when the plugin's keyword is not a
\* declared parameter; otherwise every invocation of what it returns calls the
\* callback exactly once, with the plugin's singleton under the keyword,
\* whatever the caller passed under it, and every other argument unchanged.
C11_InstallInjectsSingleton ==
    installed # << >> =>
        LET i == installed[1]
            kw == keyword(i.plugin)
        IN  /\ kw \notin i.callback.params => i.result = i.callback
            /\ (kw \in i.callback.params /\ invoked # << >>) =>
                  LET v == invoked[1]
                  IN  /\ Len(v.calls) = 1
                      /\ v.calls[1].callback = i.callback
                      /\ v.calls[1].args = v.args
                      /\ DOMAIN v.calls[1].kwargs = (DOMAIN v.kwargs) \cup {kw}
                      /\ v.calls[1].kwargs[kw] = singleton(i.plugin)
                      /\ \A n \in (DOMAIN v.kwargs) \ {kw} :
                            v.calls[1].kwargs[n] = v.kwargs[n]

\* C11 witness: a wrapped callback was invoked with a positional argument, a
\* value of the caller under the keyword and another keyword argument.
C11_Witness ==
    /\ installed # << >>
    /\ invoked # << >>
    /\ keyword(installed[1].plugin) \in installed[1].callback.params
    /\ invoked[1].args # << >>
    /\ keyword(installed[1].plugin) \in DOMAIN invoked[1].kwargs
    /\ "extra" \in DOMAIN invoked[1].kwargs
    /\ invoked[1].calls[1].kwargs[keyword(installed[1].plugin)]
          = singleton(installed[1].plugin)

\* a decorator has just been applied
DecorationStep == Len(decLog') = Len(decLog) + 1

\* the entry the last decoration asked the registry to hold
DecorationEntry(d) ==
    [device |-> device_id(d.event), mode |-> d.call.mode, event |-> d.event,
     name |-> d.callback.name, callback |-> d.returned,
     always_execute |-> d.call.always_execute]

\* the event of a joystick decoration is of the decorator's kind, carries the
\* element id and the two ids derived from the device id
MatchingEvent(d) ==
    d.call.decorator \in {"axis", "button", "hat"} =>
        /\ d.event.event_type = InputType(d.call.decorator)
        /\ d.event.identifier = d.call.id
        /\ d.event.hardware_id = d.call.device_id.hid
        /\ d.event.windows_id = d.call.device_id.wid

\* the (device, mode, event) bucket of an entry holds the entry's name
NameTaken(reg, e) ==
    /\ e.device \in DOMAIN reg
    /\ e.mode \in DOMAIN reg[e.device]
    /\ e.event \in DOMAIN reg[e.device][e.mode]
    /\ e.name \in DOMAIN reg[e.device][e.mode][e.event]

\* C12 as stated: every application of axis, button or hat registers exactly
\* one new entry, keyed by the device id of the event, the mode and an event of
\* the matching kind with the element id, with the given always_execute flag.
C12_DecorationAddsOneEntry ==
    [][DecorationStep =>
         LET d == decLog'[Len(decLog')]
             e == DecorationEntry(d)
         IN  /\ MatchingEvent(d)
             /\ e \notin Entries(registry)
             /\ Entries(registry') = Entries(registry) \cup {e}]_vars

\* C12, amended: the entry is added when the bucket does not yet hold the
\* callback's name; when it does, the decoration changes nothing in the
\* registry.
C12_DecorationAddsOneEntryUnlessNameTaken ==
    [][DecorationStep =>
         LET d == decLog'[Len(decLog')]
             e == DecorationEntry(d)
         IN  /\ MatchingEvent(d)
             /\ ~NameTaken(registry, e) =>
                   /\ e \notin Entries(registry)
                   /\ Entries(registry') = Entries(registry) \cup {e}
             /\ NameTaken(registry, e) => registry' = registry]_vars

\* C12 witness: an axis decoration added its entry, and a second one of the
\* same axis, mode and callback name with another flag found the name taken.
C12_Witness ==
    /\ Len(decLog) = 2
    /\ decLog[1].call.decorator = "axis"
    /\ decLog[2].call.decorator = "axis"
    /\ decLog[1].call.always_execute # decLog[2].call.always_execute
    /\ Entries(registry) = {DecorationEntry(decLog[1])}

\* C13 as stated: the registered callback went through the three plugins, so
\* the dispatcher's call reaches the callback with every vjoy, joy or keyboard
\* parameter it declares supplied.
C13_RegisteredCallbackInjected ==
    invoked # << >> =>
        \A c \in DOMAIN invoked[1].calls : \A p \in Plugins :
            keyword(p) \in invoked[1].calls[c].callback.params =>
                /\ keyword(p) \in DOMAIN invoked[1].calls[c].kwargs
                /\ invoked[1].calls[c].kwargs[keyword(p)] = singleton(p)

\* C13, amended: the decorators store and return a pass-through wrapper of the
\* callback itself, without applying a plugin; the dispatcher's call reaches
\* the callback once with exactly the arguments the dispatcher passed.
C13_RegisteredCallbackPassThrough ==
    /\ \A i \in DOMAIN decLog :
          /\ decLog[i].returned.kind = "wrapper_fn"
          /\ decLog[i].returned.wrapped = decLog[i].callback
          /\ decLog[i].returned.name = decLog[i].callback.name
    /\ \A e \in Entries(registry) :
          \E i \in DOMAIN decLog : e.callback = decLog[i].returned
    /\ invoked # << >> =>
          invoked[1].calls = <<[callback |-> invoked[1].callback.wrapped,
                                args |-> invoked[1].args,
                                kwargs |-> invoked[1].kwargs]>>

\* C13 witness: the registered entry of a callback declaring vjoy was invoked
\* by the dispatcher and the callback was called without it.
C13_Witness ==
    /\ invoked # << >>
    /\ decLog # << >>
    /\ "vjoy" \in invoked[1].callback.params
    /\ Len(invoked[1].calls) = 1
    /\ "vjoy" \notin DOMAIN invoked[1].calls[1].kwargs
    /\ decLog[1].call.decorator = "keyboard"

(***************************************************************************)
(* Claims about the utilities                                              *)
(***************************************************************************)
\* an enumeration saw two non-virtual devices of one name
SawDuplicates(names) ==
    \E a, b \in DOMAIN names :
        a # b /\ names[a] = names[b] /\ names[a] # "vJoy Device"

\* C14: the duplicate-device flag is true exactly when some enumeration so far
\* saw two or more non-virtual devices of one name; devices named vJoy Device
\* never count, and later enumerations with unique names leave a true flag true.
C14_DuplicateFlag ==
    g_duplicate_devices = (\E i \in DOMAIN enumLog : SawDuplicates(enumLog[i].names))

\* C14 witness: duplicates were seen, then an enumeration of two vJoy devices
\* only, and the flag is still true.
C14_Witness ==
    /\ Len(enumLog) = 2
    /\ enumLog[1].names = <<"Stick", "Stick">>
    /\ enumLog[2].names = <<"vJoy Device", "vJoy Device">>
    /\ g_duplicate_devices

\* C15: setup_appdata on an absent path creates the directory or fails with
\* the domain error; on a directory it changes nothing and raises nothing, so
\* repeated calls leave what one call leaves; on a non-directory it fails with
\* the domain error and changes nothing.
C15_SetupAppdata ==
    \A i \in DOMAIN appLog :
        LET c == appLog[i]
        IN  /\ c.before = "absent" =>
                  \/ c.after = "dir" /\ c.raised = "none"
                  \/ c.after = "absent" /\ c.raised = "GremlinError"
            /\ c.before = "dir" => (c.after = "dir" /\ c.raised = "none")
            /\ c.before = "file" => (c.after = "file" /\ c.raised = "GremlinError")
            /\ (i > 1 /\ appLog[i - 1].after = "dir" /\ c.before = "dir") =>
                  (c.after = appLog[i - 1].after /\ c.raised = "none")

\* C15 witness: the folder was created by one call and a second call found it.
C15_Witness ==
    /\ Len(appLog) = 2
    /\ appLog[1].before = "absent" /\ appLog[1].after = "dir"
    /\ appLog[2].before = "dir" /\ appLog[2].raised = "none"
    /\ folder = "dir"

\* the direction bits of a hat value, read off its binary digits
HatBit(value, n) == (value % (2 * n)) >= n

\* C16: convert_sdl_hat gives (dx, dy) with dy = +1 if the up bit is set, else
\* -1 if the down bit is set, else 0, and dx = +1 if the right bit is set, else
\* -1 if the left bit is set, else 0, whatever the other bits are.
C16_HatDirection ==
    hatOut # << >> =>
        LET dx == hatOut[1][1]
            dy == hatOut[1][2]
            up == HatBit(hatIn, 1)
            right == HatBit(hatIn, 2)
            down == HatBit(hatIn, 4)
            left == HatBit(hatIn, 8)
        IN  /\ Len(hatOut[1]) = 2
            /\ dx \in {-1, 0, 1} /\ dy \in {-1, 0, 1}
            /\ dy = (IF up THEN 1 ELSE IF down THEN -1 ELSE 0)
            /\ dx = (IF right THEN 1 ELSE IF left THEN -1 ELSE 0)
            /\ hatIn = 0 => hatOut[1] = <<0, 0>>
            /\ hatIn = 1 => hatOut[1] = <<0, 1>>
            /\ hatIn = 2 => hatOut[1] = <<1, 0>>
            /\ hatIn = 4 => hatOut[1] = <<0, -1>>
            /\ hatIn = 8 => hatOut[1] = <<-1, 0>>
            /\ hatIn = 3 => hatOut[1] = <<1, 1>>
            /\ hatIn = 12 => hatOut[1] = <<-1, -1>>

\* C16 witness: up and down are both set, with left, and up wins.
C16_Witness ==
    /\ hatIn = 13
    /\ hatOut = <<(<<-1, 1>>)>>

\* the limits of the deadzone calls made
DeadzoneLimits == dzIn[1]

\* C17: with valid limits, deadzone gives a result in [0, 1] for a value >= 0
\* and in [-1, 0] for a value < 0; 0 inside [low_center, high_center], 1 from
\* high on, -1 up to low; and a larger value never gives a smaller result.
C17_DeadzoneShape ==
    /\ \A i \in DOMAIN dzOut :
          LET v == dzOut[i].value
              r == dzOut[i].result
          IN  /\ v >= 0 => (Leq(Frac(0, 1), r) /\ Leq(r, Frac(1, 1)))
              /\ v < 0 => (Leq(Frac(-1, 1), r) /\ Leq(r, Frac(0, 1)))
              /\ (DeadzoneLimits.low_center <= v /\ v <= DeadzoneLimits.high_center)
                    => Eq(r, Frac(0, 1))
              /\ v >= DeadzoneLimits.high => Eq(r, Frac(1, 1))
              /\ v <= DeadzoneLimits.low => Eq(r, Frac(-1, 1))
    /\ \A i, j \in DOMAIN dzOut :
          dzOut[i].value <= dzOut[j].value => Leq(dzOut[i].result, dzOut[j].result)

\* C17 witness: one value between low and low_center and one between
\* high_center and high, both mapped strictly inside the range.
C17_Witness ==
    /\ Len(dzOut) = 2
    /\ DeadzoneLimits.low < dzOut[1].value
    /\ dzOut[1].value < DeadzoneLimits.low_center
    /\ DeadzoneLimits.high_center < dzOut[2].value
    /\ dzOut[2].value < DeadzoneLimits.high
    /\ DeadzoneLimits.high < Scale
    /\ DeadzoneLimits.high_center > 0
    /\ ~Leq(dzOut[1].result, Frac(-1, 1))
    /\ ~Leq(Frac(0, 1), dzOut[1].result)
    /\ ~Leq(dzOut[2].result, Frac(0, 1))
    /\ ~Leq(Frac(1, 1), dzOut[2].result)

(***************************************************************************)
(* Claims about JoystickWrapper and the JoystickProxy lookups              *)
(***************************************************************************)
WrapStep == Len(wrapLog') = Len(wrapLog) + 1

\* C18: constructing a JoystickWrapper from an index outside 0..N-1, N the
\* number of connected devices, raises GremlinError and makes no
\* SDL_JoystickOpen call.
C18_WrapperRejectsIndexWithoutDevice ==
    [][ ( /\ WrapStep
          /\ wrapLog'[Len(wrapLog')].jid \notin 0..(SDL_NumJoysticks(connected) - 1) )
        => /\ wrapLog'[Len(wrapLog')].raised = "GremlinError"
           /\ opened' = opened ]_vars

\* the system ids of the connected devices
ConnectedIds == {connected[i] : i \in DOMAIN connected}

\* C19: a JoystickProxy lookup by the system id of a connected device returns
\* a wrapper whose windows_id() is the key, whatever the id and the number of
\* devices are and whatever the cache held.
C19_ConnectedDeviceFound ==
    [][ ( /\ LookupStep
          /\ proxyLog'[Len(proxyLog')].proxy = "joy"
          /\ proxyLog'[Len(proxyLog')].key.type = "int"
          /\ proxyLog'[Len(proxyLog')].key.val \in ConnectedIds )
        => /\ proxyLog'[Len(proxyLog')].raised = "none"
           /\ Len(proxyLog'[Len(proxyLog')].value) = 1
           /\ windows_id(proxyLog'[Len(proxyLog')].value[1], connected)
                 = proxyLog'[Len(proxyLog')].key.val ]_vars

\* C20: a JoystickProxy lookup returns the wrapper cached under the key, or
\* raises TypeError, or raises GremlinError; a lookup that raises leaves the
\* cache as it was and opens no device.
C20_LookupOutcomes ==
    [][ (LookupStep /\ proxyLog'[Len(proxyLog')].proxy = "joy")
        => LET l == proxyLog'[Len(proxyLog')]
           IN  /\ l.raised \in {"none", "TypeError", "GremlinError"}
               /\ l.raised = "none" =>
                     /\ Contains(joystick_devices', l.key)
                     /\ l.value = <<joystick_devices'[l.key.val]>>
               /\ l.raised # "none" =>
                     /\ joystick_devices' = joystick_devices
                     /\ opened' = opened ]_vars

(***************************************************************************)
(* Claims about the registry as its callers see it                         *)
(***************************************************************************)
\* the step is a clear()
ClearStep ==
    /\ Len(regLog') = Len(regLog) + 1
    /\ regLog'[Len(regLog')].op = "clear"

\* C21: clear() binds a new empty mapping: a mapping obtained from the registry
\* property before a clear() keeps its entries through the clear() and through
\* every add() made after it, so none of its entries disappears or appears.
C21_HeldMappingSurvivesClear ==
    [][ (held # << >> /\ (ClearStep \/ held[1] # _registry))
        => /\ heap'[held[1]] = heap[held[1]]
           /\ (ClearStep /\ held' = held) => held'[1] # _registry' ]_vars

\* C21 witness: a mapping with an entry was obtained, clear() ran, an add()
\* after it filled the new mapping, and the old one still holds its entry.
C21_Witness ==
    /\ held # << >>
    /\ held[1] # _registry
    /\ Len(regLog) = 3
    /\ regLog[1].op = "add" /\ regLog[2].op = "clear" /\ regLog[3].op = "add"
    /\ Entries(heap[held[1]]) = {EntryOf(regLog[1])}
    /\ Entries(registry) = {EntryOf(regLog[3])}
    /\ regLog[1].callback # regLog[3].callback

\* C22: the registry is well formed: no device, mode or event bucket is empty,
\* every entry is stored under the __name__ of its callback, and every event
\* bucket is under the device id derived from its event.
C22_RegistryWellFormed ==
    \A d \in DOMAIN registry :
        /\ DOMAIN registry[d] # {}
        /\ \A m \in DOMAIN registry[d] :
              /\ DOMAIN registry[d][m] # {}
              /\ \A e \in DOMAIN registry[d][m] :
                    /\ DOMAIN registry[d][m][e] # {}
                    /\ device_id(e) = d
                    /\ \A n \in DOMAIN registry[d][m][e] :
                          registry[d][m][e][n][1].name = n

\* C22 witness: an add() of another callback of the same name for the same
\* device, mode and event was rejected, and the bucket holds the first one.
C22_Witness ==
    /\ Len(regLog) >= 2
    /\ LastCall.op = "add"
    /\ LastCall.warning
    /\ Cardinality(Entries(registry)) = 1
    /\ \E i \in DOMAIN regLog :
          /\ regLog[i].op = "add"
          /\ regLog[i].callback # LastCall.callback
          /\ SameSlot(EntryOf(regLog[i]), EntryOf(LastCall))

====
